---- MODULE Spec2Model ----
(***************************************************************************)
(* Model of the WeatherDashboard component                                 *)
(* (src/src/components/WeatherDashboard.tsx) and of the data source it     *)
(* polls (src/src/lib/supabase.ts).                                        *)
(*                                                                         *)
(* JavaScript values are records [t, v]: t is the type tag, v the payload. *)
(* A created_at timestamp is a date and a time of day, [d, m]: the day and *)
(* the minute of the day; Date.getTime() is counted in minutes instead of  *)
(* milliseconds. Wall-clock time of the timer is counted in milliseconds.  *)
(***************************************************************************)
EXTENDS Integers, Sequences, FiniteSets, TLC

(***************************************************************************)
(* Bounds of the model.                                                    *)
(***************************************************************************)
MaxInflight == 2
MaxScrolls == 3
MaxClock == 60000
ClockStep == 15000
LongLen == 57
MaxMockRows == 1

(***************************************************************************)
(* Program constants.                                                      *)
(***************************************************************************)
InitialVisible == 20
ScrollStep == 20
ResetVisible == 20
ScrollSlack == 50
PollIntervalTenth == 30000 \div 10
PollIntervalMs == 30000
MinutesPerHour == 60
QueryLimit == 3000
HoursPerView == 24
FullWidth == 100
ClientHeight == 500

(***************************************************************************)
(* JavaScript values.                                                      *)
(***************************************************************************)
Undefined == [t |-> "undefined", v |-> 0]
Null == [t |-> "null", v |-> 0]
Num(n) == [t |-> "number", v |-> n]
\* the string `reading-${index}`
ReadingId(index) == [t |-> "reading-", v |-> index]

\* a ?? b
Coalesce(a, b) == IF a.t \in {"undefined", "null"} THEN b ELSE a

Min(a, b) == IF a <= b THEN a ELSE b

(***************************************************************************)
(* Raw rows of the remote table `readings`, newest first.                  *)
(***************************************************************************)
\* time.toISOString(): the timestamp of the instant `minutes`
toISOString(minutes) == [d |-> minutes \div (24 * 60), m |-> minutes % (24 * 60)]

Row(id, at, temp, temperature, hum, humidity) ==
    [id |-> id, created_at |-> toISOString(at), temp |-> temp, temperature |-> temperature,
     hum |-> hum, humidity |-> humidity]

\* n rows at 15 minute intervals, canonical column names, ids from the source
GenRows(n, newest) ==
    [i \in 1..n |-> Row(Num(i), newest - (i - 1) * 15,
                        Undefined, Num(20 + (i % 3)),
                        Undefined, Num(50 + (i % 2)))]

Tables ==
    << <<>>,
       \* one row, alternate names only
       << Row(Num(7), 5000, Num(21), Undefined, Num(40), Undefined) >>,
       \* 48 hours: both spellings, differing; alternate only; neither spelling
       << Row(Num(1), 5000, Num(21), Num(22), Num(41), Num(42)),
          Row(Num(2), 4000, Num(23), Undefined, Num(43), Undefined),
          Row(Undefined, 2120, Undefined, Undefined, Undefined, Undefined) >>,
       \* 24 hours exactly: alternate null or 0 beside a canonical value
       << Row(Undefined, 5000, Null, Num(22), Num(0), Num(42)),
          Row(Undefined, 4000, Num(0), Num(22), Null, Num(42)),
          Row(Num(3), 3560, Num(21), Null, Null, Null) >> ,
       \* 25 hours
       << Row(Num(1), 5000, Null, Null, Undefined, Num(42)),
          Row(Num(2), 3500, Undefined, Num(22), Num(41), Null) >>,
       \* 12 hours
       << Row(Num(1), 5000, Undefined, Null, Null, Undefined),
          Row(Num(2), 4280, Num(21), Num(21), Num(40), Num(40)) >>,
       GenRows(LongLen, 5000) >>

TableIds == 1..Len(Tables)

VARIABLES
    readings,       \* useState<Reading[]>([])
    loading,        \* useState(true)
    lastUpdated,    \* useState<Date | null>(null)
    mounted,        \* useState(false)
    visibleCount,   \* useState(20)
    phase,          \* "rendered" (effects not yet run), "mounted", "unmounted"
    timers,         \* the active setInterval handles
    nextDue,        \* when the interval fires next (ms)
    clock,          \* wall-clock time (ms)
    inflight,       \* number of requests awaiting their response
    table,          \* the remote table: an index into Tables
    view,           \* what the last render computed: latest, chart width
    last,           \* the component's last step, with the response it received,
                    \* and a record of the fetches so far: good, the rows of
                    \* the last response with data; goodTable, the table it
                    \* read (0: none yet); again, this response read the table
                    \* of the one before; overlap, fetches were in flight
                    \* together since none was
    scrolls,        \* scroll-threshold triggers since the last successful fetch
    isMock          \* the client is the mock client (no Supabase environment)

vars == <<readings, loading, lastUpdated, mounted, visibleCount, phase, timers,
          nextDue, clock, inflight, table, view, last, scrolls, isMock>>

(***************************************************************************)
(* fetchData: the mapping of a raw row to a Reading.                       *)
(***************************************************************************)
\* Variant: the canonical spelling is read first.
mapItemCanonicalFirst(item, index) ==
    [id |-> Coalesce(item.id, ReadingId(index)),
     created_at |-> item.created_at,
     temperature |-> Coalesce(item.temperature, Coalesce(item.temp, Num(0))),
     humidity |-> Coalesce(item.humidity, Coalesce(item.hum, Num(0)))]

\* Variant: only the canonical spelling is read.
mapItemCanonicalOnly(item, index) ==
    [id |-> Coalesce(item.id, ReadingId(index)),
     created_at |-> item.created_at,
     temperature |-> Coalesce(item.temperature, Num(0)),
     humidity |-> Coalesce(item.humidity, Num(0))]

mapItem(item, index) ==
    [id |-> Coalesce(item.id, ReadingId(index)),
     created_at |-> item.created_at,
     temperature |-> Coalesce(item.temp, Coalesce(item.temperature, Num(0))),
     humidity |-> Coalesce(item.hum, Coalesce(item.humidity, Num(0)))]

\* Variant: the rows are mapped in reverse order.
mappedReadingsReversed(data) ==
    [i \in 1..Len(data) |-> mapItem(data[Len(data) + 1 - i], i - 1)]

\* data.map((item, index) => ...): index counts from 0
mappedReadings(data) == [i \in 1..Len(data) |-> mapItem(data[i], i - 1)]

(***************************************************************************)
(* Values derived on every render.                                         *)
(***************************************************************************)
Placeholder == [temperature |-> Num(0), humidity |-> Num(0)]

\* Variant: the last element is taken.
latestOfEnd(rs) == IF Len(rs) >= 1 THEN rs[Len(rs)] ELSE Placeholder

\* readings[0] || { temperature: 0, humidity: 0 }
latest(rs) ==
    LET first == IF Len(rs) >= 1 THEN [t |-> "object", v |-> rs[1]] ELSE Undefined
    IN  IF first.t = "undefined" THEN Placeholder ELSE first.v

\* new Date(created_at).getTime(), in minutes
getTime(at) == at.d * (24 * MinutesPerHour) + at.m

\* Variant: the width follows the span below 24 hours too.
getChartWidthUnclamped(rs) ==
    IF Len(rs) < 2 THEN [num |-> FullWidth, den |-> 1]
    ELSE [num |-> (getTime(rs[1].created_at) - getTime(rs[Len(rs)].created_at))
                      * FullWidth,
          den |-> MinutesPerHour * HoursPerView]

\* The width in percent, as the fraction num / den.
getChartWidth(rs) ==
    IF Len(rs) < 2 THEN [num |-> FullWidth, den |-> 1]
    ELSE LET newest == getTime(rs[1].created_at)
             oldest == getTime(rs[Len(rs)].created_at)
             \* durationHours = (newest - oldest) / MinutesPerHour
             span == newest - oldest
         IN  IF span > HoursPerView * MinutesPerHour
             THEN [num |-> span * FullWidth, den |-> MinutesPerHour * HoursPerView]
             ELSE [num |-> FullWidth, den |-> 1]

Render(rs) == [latest |-> latest(rs), chartWidth |-> getChartWidth(rs)]

(***************************************************************************)
(* Responses of the data source.                                           *)
(***************************************************************************)
NoResponse == [thrown |-> FALSE, data |-> Undefined, error |-> Undefined]
DataResponse(rows) ==
    [thrown |-> FALSE, data |-> [t |-> "array", v |-> rows], error |-> Null]
ErrorResponse == [thrown |-> FALSE, data |-> Null, error |-> [t |-> "object", v |-> 0]]
Thrown == [thrown |-> TRUE, data |-> Undefined, error |-> Undefined]

\* a step of the component that receives no response
Step(op) ==
    [op |-> op, resp |-> NoResponse, prevLen |-> 0, prevVisible |-> 0,
     good |-> last.good, goodTable |-> last.goodTable, again |-> FALSE,
     overlap |-> last.overlap]

\* a step of the component that starts a fetch
StartStep(op) == [Step(op) EXCEPT !.overlap = (inflight >= 1)]

\* .limit(3000): the first rows of the ordered table
limit(rows, count) == SubSeq(rows, 1, Min(Len(rows), count))

(***************************************************************************)
(* The mock client. Math.sin(i * 0.5) * 5 and Math.cos(i * 0.5) * 10 are   *)
(* rounded to whole numbers; Math.random() * 2 - 1 is -1 or 0 and          *)
(* Math.random() * 4 - 2 is -2 or 1. `now` is the wall clock; created_at   *)
(* keeps its minute. The batch is cut to MaxMockRows rows.                 *)
(***************************************************************************)
MockId(i) == [t |-> "mock-", v |-> i]

mockSin5(i) == CASE i = 0 -> 0 [] i = 1 -> 2 [] i = 2 -> 4 [] i = 3 -> 5 [] OTHER -> 5
mockCos10(i) == CASE i = 0 -> 10 [] i = 1 -> 9 [] i = 2 -> 5 [] i = 3 -> 1 [] OTHER -> -4

\* the draws of Math.random() for n rows: temperature and humidity jitter
MockJitters(n) == [1..n -> {-1, 0} \X {-2, 1}]

\* new Date() in the mock client, in minutes
mockNow == 5000 + clock \div 60000

\* Array.from({ length: count || 10 }).map((_, i) => ...): i counts from 0
mockData(count, now, jitter) ==
    LET length == IF count = 0 THEN 10 ELSE count
    IN  [k \in 1..Min(length, MaxMockRows) |->
            Row(MockId(k - 1), now - (k - 1) * 15,
                Undefined, Num(22 + mockSin5(k - 1) + jitter[k][1]),
                Undefined, Num(55 + mockCos10(k - 1) + jitter[k][2]))]

\* Variant: the mock client is used whatever the environment.
useMockAlways == TRUE

\* export const supabase = isMock ? mockClient : createClient(...)
useMock == isMock

\* what the request can settle with: the mock client answers with fresh
\* synthetic rows, the real one with the rows of Tables[table], an error or
\* a failure of the request
Responses ==
    IF useMock
    THEN {DataResponse(mockData(QueryLimit, mockNow, j)) :
              j \in MockJitters(Min(QueryLimit, MaxMockRows))}
    ELSE {DataResponse(limit(Tables[table], QueryLimit)), ErrorResponse, Thrown}

\* Variant: only undefined is falsy.
Defined(x) == x.t # "undefined"

Truthy(x) == x.t \notin {"undefined", "null"}

(***************************************************************************)
(* Initial state: the first render, before the effects have run.           *)
(***************************************************************************)
Init ==
    /\ readings = <<>>
    /\ loading = TRUE
    /\ lastUpdated = Null
    /\ mounted = FALSE
    /\ visibleCount = InitialVisible
    /\ phase = "rendered"
    /\ timers = {}
    /\ nextDue = 0
    /\ clock = 0
    /\ inflight = 0
    /\ isMock \in BOOLEAN
    /\ table \in (IF isMock THEN {1} ELSE TableIds)
    /\ view = Render(<<>>)
    /\ last = [op |-> "init", resp |-> NoResponse, prevLen |-> 0, prevVisible |-> 0,
               good |-> <<>>, goodTable |-> 0, again |-> FALSE, overlap |-> FALSE]
    /\ scrolls = 0

\* Variant: the handle is not cleared.
clearNothing(ts, handle) == ts

\* setInterval(fetchData, 30000) and clearInterval(interval) on the set of
\* active timers; "interval" is the handle the effect keeps.
setInterval(ts) == ts \cup {"interval"}
clearInterval(ts, handle) == ts \ {handle}

(***************************************************************************)
(* fetchData up to its await: setLoading(true) and the request is sent.    *)
(***************************************************************************)
\* Variant: no fetch is started while one is in flight.
fetchDataStartUnlessBusy ==
    IF inflight > 0
    THEN UNCHANGED <<loading, inflight>>
    ELSE /\ loading' = TRUE
         /\ inflight' = inflight + 1

fetchDataStart ==
    /\ inflight < MaxInflight
    /\ loading' = TRUE
    /\ inflight' = inflight + 1

\* The two mount effects: setMounted, setLastUpdated; fetchData(), setInterval.
Mount ==
    /\ phase = "rendered"
    /\ phase' = "mounted"
    /\ mounted' = TRUE
    /\ lastUpdated' = Num(clock)
    /\ fetchDataStart
    /\ timers' = setInterval(timers)
    /\ nextDue' = clock + PollIntervalMs
    /\ last' = StartStep("mount")
    /\ view' = Render(readings)
    /\ UNCHANGED <<readings, visibleCount, clock, table, scrolls, isMock>>

\* The interval fires: setInterval(fetchData, 30000).
Tick ==
    /\ timers # {}
    /\ clock >= nextDue
    /\ fetchDataStart
    /\ nextDue' = nextDue + PollIntervalMs
    /\ last' = StartStep("tick")
    /\ view' = Render(readings)
    /\ UNCHANGED <<readings, lastUpdated, mounted, visibleCount, phase, timers,
                   clock, table, scrolls, isMock>>

\* The refresh button: onClick={fetchData} disabled={loading}.
RefreshClick ==
    /\ phase = "mounted"
    /\ ~loading
    /\ fetchDataStart
    /\ last' = StartStep("click")
    /\ view' = Render(readings)
    /\ UNCHANGED <<readings, lastUpdated, mounted, visibleCount, phase, timers,
                   nextDue, clock, table, scrolls, isMock>>

\* Variant: an answer without data is published too.
gotAnswer(r) == ~r.thrown

\* if (data): the await did not throw and data is truthy
gotData(r) == ~r.thrown /\ Truthy(r.data)

\* the rows of data
rowsOf(r) == IF r.data.t = "array" THEN r.data.v ELSE <<>>

\* Variant: the window is kept.
keepVisible(prev) == prev

\* setVisibleCount(20)
resetVisible(prev) == ResetVisible

\* Variant: setLoading(false) is skipped when the request threw.
loadingUnlessThrown(r) == r.thrown

\* setLoading(false), after the try/catch
loadingAfter(r) == FALSE

\* fetchData from its await on: the request settles with r.
fetchDataSettled(r) ==
    /\ inflight > 0
    /\ inflight' = inflight - 1
    /\ IF gotData(r)
       THEN /\ readings' = mappedReadings(rowsOf(r))
            /\ lastUpdated' = Num(clock)
            /\ visibleCount' = resetVisible(visibleCount)
            /\ scrolls' = 0
       ELSE UNCHANGED <<readings, lastUpdated, visibleCount, scrolls>>
    /\ loading' = loadingAfter(r)
    /\ last' = [op |-> "settled", resp |-> r, prevLen |-> Len(readings),
                prevVisible |-> visibleCount,
                good |-> IF gotData(r) THEN rowsOf(r) ELSE last.good,
                goodTable |-> IF gotData(r) THEN table ELSE last.goodTable,
                again |-> gotData(r) /\ last.goodTable = table,
                overlap |-> last.overlap]
    /\ view' = IF phase = "unmounted" THEN view ELSE Render(readings')
    /\ UNCHANGED <<mounted, phase, timers, nextDue, clock, table, isMock>>

FetchSettles == \E r \in Responses : fetchDataSettled(r)

\* Variant: the window jumps to the whole list.
showAll(prev, total) == total

\* Variant: the window grows without the cap.
nextVisibleUncapped(prev, total) == prev + ScrollStep

\* Math.min(prev + 20, readings.length)
nextVisible(prev, total) == Min(prev + ScrollStep, total)

\* onScroll of the table container.
handleScroll(scrollTop, clientHeight, scrollHeight) ==
    /\ phase = "mounted"
    /\ IF scrollHeight - scrollTop <= clientHeight + ScrollSlack
       THEN /\ scrolls < MaxScrolls
            /\ visibleCount' = nextVisible(visibleCount, Len(readings))
            /\ scrolls' = scrolls + 1
            /\ last' = Step("scroll")
       ELSE /\ UNCHANGED <<visibleCount, scrolls>>
            /\ last' = Step("scroll-far")
    /\ view' = Render(readings)
    /\ UNCHANGED <<readings, loading, lastUpdated, mounted, phase, timers,
                   nextDue, clock, inflight, table, isMock>>

Scroll ==
    \E scrollTop \in {0, 449, 450, 500}, scrollHeight \in {500, 1000} :
        /\ scrollTop + ClientHeight <= scrollHeight
        /\ handleScroll(scrollTop, ClientHeight, scrollHeight)

\* The cleanup of the polling effect: clearInterval(interval).
Unmount ==
    /\ phase = "mounted"
    /\ phase' = "unmounted"
    /\ timers' = clearInterval(timers, "interval")
    /\ last' = Step("unmount")
    /\ UNCHANGED <<readings, loading, lastUpdated, mounted, visibleCount,
                   nextDue, clock, inflight, table, view, scrolls, isMock>>

\* Time passes; an active interval fires before time passes its due time.
Advance ==
    /\ phase # "rendered"
    /\ clock < MaxClock
    /\ timers # {} => clock < nextDue
    /\ clock' = LET t == Min(clock + ClockStep, MaxClock)
                IN  IF timers # {} THEN Min(t, nextDue) ELSE t
    /\ UNCHANGED <<readings, loading, lastUpdated, mounted, visibleCount, phase,
                   timers, nextDue, inflight, table, view, last, scrolls, isMock>>

\* The remote table is written by its producer.
SourceChange ==
    /\ ~isMock
    /\ \E t \in TableIds \ {table} : table' = t
    /\ UNCHANGED <<readings, loading, lastUpdated, mounted, visibleCount, phase,
                   timers, nextDue, clock, inflight, view, last, scrolls, isMock>>

Next ==
    \/ Mount
    \/ Tick
    \/ RefreshClick
    \/ FetchSettles
    \/ Scroll
    \/ Unmount
    \/ Advance
    \/ SourceChange

Spec == Init /\ [][Next]_vars

(***************************************************************************)
(* Properties.                                                             *)
(***************************************************************************)
\* the last step of the component was a fetch that received data
Success == last.op = "settled" /\ gotData(last.resp)

\* the batch that fetch received
Batch == rowsOf(last.resp)

\* the field is in the record; the field holds a value
Present(x) == x.t # "undefined"
HasValue(x) == x.t \notin {"undefined", "null"}

\* C1 as stated: a row that carries both spellings is normalized to the value
\* of the canonical field (temperature, humidity).
C1_CanonicalWins ==
    Success =>
        \A i \in 1..Len(Batch) :
            /\ (Present(Batch[i].temp) /\ Present(Batch[i].temperature))
                   => readings[i].temperature = Batch[i].temperature
            /\ (Present(Batch[i].hum) /\ Present(Batch[i].humidity))
                   => readings[i].humidity = Batch[i].humidity

\* C1 amended: a row whose alternate field (temp, hum) holds a value is
\* normalized to that value, whatever the canonical field holds; the canonical
\* field is taken only when the alternate one is absent or null.
C1_AlternateWins ==
    Success =>
        \A i \in 1..Len(Batch) :
            /\ Len(readings) = Len(Batch)
            /\ HasValue(Batch[i].temp) => readings[i].temperature = Batch[i].temp
            /\ HasValue(Batch[i].hum) => readings[i].humidity = Batch[i].hum
            /\ (~HasValue(Batch[i].temp) /\ HasValue(Batch[i].temperature))
                   => readings[i].temperature = Batch[i].temperature
            /\ (~HasValue(Batch[i].hum) /\ HasValue(Batch[i].humidity))
                   => readings[i].humidity = Batch[i].humidity

\* C1 witness: a fetched row holds differing values in both spellings.
C1_Witness ==
    /\ Success
    /\ \E i \in 1..Len(Batch) :
           /\ HasValue(Batch[i].temp) /\ HasValue(Batch[i].temperature)
           /\ Batch[i].temp # Batch[i].temperature
           /\ HasValue(Batch[i].hum) /\ HasValue(Batch[i].humidity)
           /\ Batch[i].hum # Batch[i].humidity
           /\ readings[i].temperature = Batch[i].temp

\* C2: a row without the canonical field is normalized to the value of the
\* alternate field when that holds one, and to 0 when neither spelling does.
C2_AlternateOrZero ==
    Success =>
        \A i \in 1..Len(Batch) :
            /\ Len(readings) = Len(Batch)
            /\ ~Present(Batch[i].temperature) =>
                   readings[i].temperature =
                       IF HasValue(Batch[i].temp) THEN Batch[i].temp ELSE Num(0)
            /\ ~Present(Batch[i].humidity) =>
                   readings[i].humidity =
                       IF HasValue(Batch[i].hum) THEN Batch[i].hum ELSE Num(0)

\* C2 witness: one fetched batch has a row with the alternate spelling only
\* and a row with neither spelling.
C2_Witness ==
    /\ Success
    /\ \E i, j \in 1..Len(Batch) :
           /\ ~Present(Batch[i].temperature) /\ HasValue(Batch[i].temp)
           /\ readings[i].temperature = Batch[i].temp
           /\ ~Present(Batch[j].temperature) /\ ~Present(Batch[j].temp)
           /\ readings[j].temperature = Num(0)
           /\ ~Present(Batch[j].humidity) /\ ~Present(Batch[j].hum)
           /\ readings[j].humidity = Num(0)

\* the last step of the component was a fetch answered with an error, no data
Failed == last.op = "settled" /\ last.resp = ErrorResponse

\* C3 as stated: after a fetch answered with an error the readings list is
\* the empty list.
C3_ErrorPublishesEmpty == Failed => readings = <<>>

\* C3 amended: a fetch answered with an error runs to its end (loading is
\* set to false) and publishes nothing: readings is the list it was before.
C3_ErrorKeepsReadings ==
    [][Failed' => (readings' = readings /\ loading' = FALSE)]_vars

\* C3 witness: an error was answered while a non-empty list was shown.
C3_Witness == Failed /\ readings # <<>> /\ last.prevLen = Len(readings)

\* C4: after a successful fetch readings is the normalized image of the
\* batch received: same length, same order, nothing of the previous list.
C4_ReplacedInFull ==
    Success =>
        /\ Len(readings) = Len(Batch)
        /\ \A i \in 1..Len(Batch) :
               /\ readings[i].created_at = Batch[i].created_at
               /\ readings[i] = mapItem(Batch[i], i - 1)

\* C4 witness: a batch of several rows replaced a longer, non-empty list.
C4_Witness ==
    /\ Success
    /\ Len(Batch) >= 2
    /\ last.prevLen > Len(Batch)
    /\ readings[1].created_at.d > readings[Len(readings)].created_at.d

\* C5: while the component is rendered, the latest reading is the first
\* element of readings, or the placeholder with temperature 0 and humidity 0
\* when the list is empty, and its two values are numbers.
C5_LatestIsFirst ==
    phase # "unmounted" =>
        /\ readings # <<>> => view.latest = readings[1]
        /\ readings = <<>> => view.latest = [temperature |-> Num(0), humidity |-> Num(0)]
        /\ view.latest.temperature.t = "number"
        /\ view.latest.humidity.t = "number"

\* C5 witness: a fetch of an empty batch emptied a non-empty list.
C5_Witness ==
    /\ phase = "mounted"
    /\ Success
    /\ readings = <<>>
    /\ last.prevLen > 0
    /\ view.latest = Placeholder

\* a timestamp in minutes
MinutesOf(at) == at.d * 1440 + at.m

\* the span in minutes between the first and the last reading
SpanMinutes ==
    MinutesOf(readings[1].created_at) - MinutesOf(readings[Len(readings)].created_at)

\* the chart is w percent wide
WidthIs(w) == view.chartWidth.num = w * view.chartWidth.den

\* C6: the chart is 100% wide with fewer than 2 readings or a span of at
\* most 24 hours, and (span in hours / 24 * 100) percent wide above 24 hours:
\* 200% for 48 hours, 100% for 12 and for exactly 24 hours.
C6_ChartWidth ==
    phase # "unmounted" =>
        /\ Len(readings) < 2 => WidthIs(100)
        /\ Len(readings) >= 2 =>
               /\ SpanMinutes <= 24 * 60 => WidthIs(100)
               /\ SpanMinutes > 24 * 60 =>
                      view.chartWidth.num * 24 * 60
                          = SpanMinutes * 100 * view.chartWidth.den
               /\ SpanMinutes = 48 * 60 => WidthIs(200)
               /\ SpanMinutes \in {12 * 60, 24 * 60} => WidthIs(100)

\* C6 witness: readings spanning 48 hours are charted 200% wide.
C6_Witness ==
    /\ phase = "mounted"
    /\ Len(readings) >= 2
    /\ SpanMinutes = 48 * 60
    /\ WidthIs(200)

\* C7: with N >= 20 readings loaded the window is min(20 + 20*k, N) after k
\* scroll-threshold triggers since the fetch; for N = 57: 20, 40, 57, 57.
C7_WindowGrowth ==
    Len(readings) >= 20 =>
        /\ visibleCount = Min(20 + 20 * scrolls, Len(readings))
        /\ Len(readings) = 57 =>
               visibleCount = CASE scrolls = 0 -> 20
                                [] scrolls = 1 -> 40
                                [] OTHER -> 57

\* C7 witness: 57 readings, three triggers, window 57.
C7_Witness == Len(readings) = 57 /\ scrolls = 3 /\ visibleCount = 57

\* C8: right after a successful fetch the window is 20, whatever it was.
C8_WindowReset == Success => visibleCount = 20

\* C8 witness: a fetch succeeded after the window had grown to 57.
C8_Witness == Success /\ last.prevVisible = 57 /\ visibleCount = 20

\* C9: mounting starts exactly one fetch at once and arms the timer for
\* 30000 ms later; each tick comes 30000 ms after the one before, starts
\* exactly one fetch, and none is skipped while mounted; after the cleanup no
\* fetch is started and the timer is not re-armed.
C9_Polling ==
    [][ /\ (phase = "rendered" /\ phase' = "mounted") =>
               /\ inflight' = inflight + 1
               /\ nextDue' = clock + 30000
        /\ (phase = "mounted" /\ nextDue' # nextDue) =>
               /\ clock = nextDue
               /\ inflight' = inflight + 1
               /\ nextDue' = nextDue + 30000
               /\ phase' = "mounted"
        /\ (phase = "mounted" /\ clock' > clock) => clock' <= nextDue
        /\ phase = "unmounted" =>
               /\ inflight' <= inflight
               /\ nextDue' = nextDue ]_vars

\* C9 witness: a tick fired at 30000 ms, the component was unmounted, and the
\* time of the next tick has come without a fetch being started.
C9_Witness ==
    /\ phase = "unmounted"
    /\ nextDue = 60000
    /\ clock >= nextDue
    /\ inflight = 0

\* C10: at most one polling timer is active, and one is active exactly while
\* the component is mounted.
C10_OneTimer ==
    /\ Cardinality(timers) <= 1
    /\ timers # {} <=> phase = "mounted"

\* C10 witness: the timer of a mounted component was cleared by the cleanup.
C10_Witness == phase = "unmounted" /\ timers = {} /\ nextDue >= 30000

\* C11 as stated: once the component is unmounted, readings, lastUpdated,
\* visibleCount and loading are not set any more.
C11_NoWriteAfterUnmount ==
    [][phase = "unmounted" =>
           UNCHANGED <<readings, lastUpdated, visibleCount, loading>>]_vars

\* a fetch settles in this step without data: an error answer or a throw
SettlesFailed == inflight' < inflight /\ last'.resp \in {ErrorResponse, Thrown}

\* C14: a fetch that fails (error answer without data, or a throw) leaves
\* readings, lastUpdated and visibleCount as they were.
C14_FailureKeepsState ==
    [][SettlesFailed => UNCHANGED <<readings, lastUpdated, visibleCount>>]_vars

\* C14 witness: a request threw while readings were shown in a grown window.
C14_Witness ==
    /\ last.op = "settled"
    /\ last.resp = Thrown
    /\ readings # <<>>
    /\ last.prevLen = Len(readings)
    /\ visibleCount > 20
    /\ last.prevVisible = visibleCount

\* C15 as stated: loading is true whenever a fetch is in flight.
C15_LoadingWhileInflight == inflight > 0 => loading

\* a scroll-threshold trigger is handled in this step
Triggered == scrolls' = scrolls + 1

\* C16 as stated: a scroll-threshold trigger never decreases visibleCount.
C16_NeverDecreases == [][Triggered => visibleCount' >= visibleCount]_vars

\* C16 amended: a trigger does not decrease visibleCount while the window is
\* within the loaded readings, which it always is with 20 or more loaded;
\* with fewer readings than the window it sets visibleCount to their number.
C16_DecreasesOnlyToLength ==
    [][ /\ Len(readings') >= 20 => visibleCount' <= Len(readings')
        /\ Triggered =>
               IF visibleCount <= Len(readings)
               THEN /\ visibleCount' = Min(visibleCount + 20, Len(readings))
                    /\ visibleCount' >= visibleCount
               ELSE visibleCount' = Len(readings) ]_vars

\* C16 witness: with one reading loaded a trigger lowered the window to 1.
C16_Witness ==
    /\ last.op = "scroll"
    /\ Len(readings) = 1
    /\ scrolls = 1
    /\ visibleCount = 1

\* C17: a fetch that settles, with data, with an error or by a throw, sets
\* loading to false; once a fetch was started and none is in flight, loading
\* is false.
C17_LoadingCleared ==
    [][ /\ inflight' < inflight => loading' = FALSE
        /\ (inflight' = 0 /\ phase' # "rendered") => loading' = FALSE ]_vars

\* C17 witness: the only fetch in flight threw and loading is false.
C17_Witness ==
    /\ last.op = "settled"
    /\ last.resp = Thrown
    /\ inflight = 0
    /\ ~loading

\* C12: a tick starts a fetch also while one is in flight (two are in flight
\* after it); readings is always the full normalized set of rows of the
\* response with data that arrived last, nothing queued or merged.
C12_LastWriteWins ==
    /\ (last.op = "tick" /\ last.overlap) => inflight >= 2
    /\ Success => last.good = last.resp.data.v
    /\ Len(readings) = Len(last.good)
    /\ \A i \in 1..Len(readings) : readings[i] = mapItem(last.good[i], i - 1)

\* C12 witness: two fetches were in flight together, both have settled, and
\* the one that settled last replaced a non-empty list by a list of another
\* length.
C12_Witness ==
    /\ last.overlap
    /\ inflight = 0
    /\ Success
    /\ last.prevLen > 0
    /\ Len(readings) # last.prevLen
    /\ Len(readings) > 0

\* a response with data arrives in this step
SettlesWithData == inflight' < inflight /\ last'.resp.data.t = "array"

\* two lists are element-wise equal
SameLists(a, b) ==
    /\ Len(a) = Len(b)
    /\ \A i \in 1..Len(a) :
           /\ a[i].id = b[i].id
           /\ a[i].created_at = b[i].created_at
           /\ a[i].temperature = b[i].temperature
           /\ a[i].humidity = b[i].humidity

\* C13 as stated: the poll after a poll of the same, unchanged table
\* publishes a list element-wise equal to the one before, whatever the client.
C13_Idempotent ==
    [][(SettlesWithData /\ last.goodTable = table) =>
           SameLists(readings', readings)]_vars

\* C13 amended: that holds with the real client; with the mock client the two
\* lists have the same length and the same ids.
C13_IdempotentOnTable ==
    [][(SettlesWithData /\ last.goodTable = table) =>
           IF isMock
           THEN /\ Len(readings') = Len(readings)
                /\ \A i \in 1..Len(readings) : readings'[i].id = readings[i].id
           ELSE SameLists(readings', readings)]_vars

\* C13 witness: the real client was polled twice with the table unchanged.
C13_Witness ==
    /\ ~isMock
    /\ Success
    /\ last.again
    /\ Len(readings) >= 2
    /\ last.prevLen = Len(readings)

====
